---------------------------- MODULE Spec2Model ----------------------------
(***************************************************************************)
(* Model of the Hex plugin (src/plugin.go): the two input validators, the  *)
(* configuration resolver, the command builder and the publish             *)
(* orchestrator with its substitutable executor.                           *)
(*                                                                         *)
(* Go strings are TLA+ strings; the model only builds ASCII strings, for   *)
(* which Go's len (bytes) and range (runes) count the same elements.       *)
(* Paths follow the Unix rules of path/filepath (Separator = "/").         *)
(***************************************************************************)
EXTENDS Integers, Sequences, FiniteSets, TLC

VARIABLES
    pc,      \* "idle" | "executing" | "done": position of the Execute call;
             \* "call" | "ret": position of a direct call of a validator
    environ, \* the process environment read by the config parser
    req,     \* the ExecuteRequest being served
    cfg,     \* the Config parsed from req.Config
    calls,   \* MockCommandExecutor.Calls: the recorded executor invocations
    resp,    \* the ExecuteResponse returned
    arg,     \* argument of a direct validator call
    ret,     \* its returned error
    run,     \* what the executor returned to publish: [Output, Err]
    err,     \* the error an entry point (Execute, Validate) returned with its response
    ctx,     \* the context.Context of the invocation: "live" | "cancelled"
    child,   \* the child process of RealCommandExecutor.Run
    inv      \* the other invocations of the host: those running concurrently,
             \* or the results of the calls it made before

vars == <<pc, environ, req, cfg, calls, resp, arg, ret, run, err, ctx, child, inv>>

-----------------------------------------------------------------------------
(* Bounds of the model                                                     *)

\* longest path handed directly to validatePath
MaxPathLen == 6
\* longest organization (besides the long ones) handed directly to validateOrganization
MaxOrgStrLen == 3
\* longest generated work_dir of an Execute request
MaxDirLen == 2
\* longest generated organization of an Execute request
MaxExecOrgLen == 1

-----------------------------------------------------------------------------
(* Go strings                                                              *)

\* s[i], 0-based as in Go
At(s, i) == SubSeq(s, i + 1, i + 1)

\* s[:n]
Take(s, n) == IF n <= 0 THEN "" ELSE SubSeq(s, 1, n)

\* s[n:]
Drop(s, n) == IF n >= Len(s) THEN "" ELSE SubSeq(s, n + 1, Len(s))

\* strings.HasPrefix
HasPrefix(s, prefix) == Len(s) >= Len(prefix) /\ Take(s, Len(prefix)) = prefix

\* strings.Contains
Contains(s, substr) ==
    \E i \in 0..(Len(s) - Len(substr)) : Take(Drop(s, i), Len(substr)) = substr

\* strings.TrimPrefix
TrimPrefix(s, prefix) == IF HasPrefix(s, prefix) THEN Drop(s, Len(prefix)) ELSE s

\* strings.Join
RECURSIVE Join(_, _)
Join(elems, sep) ==
    IF Len(elems) = 0 THEN ""
    ELSE IF Len(elems) = 1 THEN elems[1]
    ELSE elems[1] \o sep \o Join(Tail(elems), sep)

\* strings.Repeat
RECURSIVE Repeat(_, _)
Repeat(s, count) ==
    IF count <= 0 THEN ""
    ELSE LET half == Repeat(s, count \div 2)
         IN  half \o half \o (IF count % 2 = 1 THEN s ELSE "")

\* every string over chars of length at most n
RECURSIVE StringsUpTo(_, _)
StringsUpTo(chars, n) ==
    IF n = 0 THEN {""}
    ELSE LET shorter == StringsUpTo(chars, n - 1)
         IN  shorter \cup {s \o c : s \in shorter, c \in chars}

\* a nil error
Nil == "<nil>"

\* no record: no request, no config, no response, no executor call
NoValue == [none |-> TRUE]

-----------------------------------------------------------------------------
(* path/filepath on Unix                                                   *)

Separator == "/"

\* filepath.IsAbs
IsAbs(path) == HasPrefix(path, "/")

\* the backtracking loop of Clean: out.w--, then down to the previous separator
RECURSIVE CleanBacktrack(_, _, _)
CleanBacktrack(out, w, dotdot) ==
    IF w > dotdot /\ At(out, w) # "/" THEN CleanBacktrack(out, w - 1, dotdot) ELSE w

\* the main loop of Clean over path[r:], with the output buffer and the dotdot mark
RECURSIVE CleanLoop(_, _, _, _, _)
CleanLoop(path, rooted, r, out, dotdot) ==
    LET n == Len(path) IN
    IF r >= n THEN out
    ELSE IF At(path, r) = "/" THEN
        \* empty path element
        CleanLoop(path, rooted, r + 1, out, dotdot)
    ELSE IF At(path, r) = "." /\ (r + 1 = n \/ At(path, r + 1) = "/") THEN
        \* . element
        CleanLoop(path, rooted, r + 1, out, dotdot)
    ELSE IF /\ At(path, r) = "."
            /\ r + 1 < n
            /\ At(path, r + 1) = "."
            /\ (r + 2 = n \/ At(path, r + 2) = "/") THEN
        \* .. element: remove to last separator
        IF Len(out) > dotdot THEN
            CleanLoop(path, rooted, r + 2,
                      Take(out, CleanBacktrack(out, Len(out) - 1, dotdot)), dotdot)
        ELSE IF ~rooted THEN
            LET out2 == (IF Len(out) > 0 THEN out \o "/" ELSE out) \o ".."
            IN  CleanLoop(path, rooted, r + 2, out2, Len(out2))
        ELSE CleanLoop(path, rooted, r + 2, out, dotdot)
    ELSE
        \* real path element: add slash if needed, copy element
        LET sep  == IF (rooted /\ Len(out) # 1) \/ (~rooted /\ Len(out) # 0)
                    THEN "/" ELSE ""
            rest == Drop(path, r)
            len  == IF Contains(rest, "/")
                    THEN CHOOSE k \in 0..Len(rest) :
                             /\ At(rest, k) = "/"
                             /\ \A j \in 0..(k - 1) : At(rest, j) # "/"
                    ELSE Len(rest)
        IN  CleanLoop(path, rooted, r + len, out \o sep \o Take(rest, len), dotdot)

\* filepath.Clean
Clean(path) ==
    IF path = "" THEN "."
    ELSE LET rooted == At(path, 0) = "/"
             out == CleanLoop(path, rooted, IF rooted THEN 1 ELSE 0,
                              IF rooted THEN "/" ELSE "", IF rooted THEN 1 ELSE 0)
         IN  IF out = "" THEN "." ELSE out


-----------------------------------------------------------------------------
(* Input validators                                                        *)

\* validatePath without its check for absolute paths
validatePath_NoAbsCheck(path) ==
    IF path = "" THEN Nil
    ELSE LET cleaned == Clean(path) IN
         IF HasPrefix(cleaned, "..") \/ Contains(cleaned, Separator \o "..")
         THEN "path traversal detected: cannot use '..' to escape working directory"
         ELSE Nil

\* validatePath: the error returned, Nil when the path is accepted
validatePath(path) ==
    IF path = "" THEN Nil
    ELSE LET cleaned == Clean(path) IN
         IF IsAbs(cleaned) THEN "absolute paths are not allowed"
         ELSE IF HasPrefix(cleaned, "..") \/ Contains(cleaned, Separator \o "..")
              THEN "path traversal detected: cannot use '..' to escape working directory"
         ELSE Nil

\* the longest organization name accepted
MaxOrgLen == 128

LowerChars == {"a", "b", "c", "d", "e", "f", "g", "h", "i", "j", "k", "l", "m",
               "n", "o", "p", "q", "r", "s", "t", "u", "v", "w", "x", "y", "z"}
UpperChars == {"A", "B", "C", "D", "E", "F", "G", "H", "I", "J", "K", "L", "M",
               "N", "O", "P", "Q", "R", "S", "T", "U", "V", "W", "X", "Y", "Z"}
DigitChars == {"0", "1", "2", "3", "4", "5", "6", "7", "8", "9"}

\* the test of one rune, a space let through
orgRuneOk_AllowsSpace(r) ==
    r \in LowerChars \cup UpperChars \cup DigitChars \cup {"-", "_", " "}


\* the test of one rune in the loop of validateOrganization
orgRuneOk(r) ==
    LET isLower      == r \in LowerChars
        isUpper      == r \in UpperChars
        isDigit      == r \in DigitChars
        isHyphen     == r = "-"
        isUnderscore == r = "_"
    IN  ~(~isLower /\ ~isUpper /\ ~isDigit /\ ~isHyphen /\ ~isUnderscore)

\* validateOrganization with the length limit off by one (>= for >)
validateOrganization_OffByOne(org) ==
    IF org = "" THEN Nil
    ELSE IF Len(org) >= MaxOrgLen
         THEN "organization name too long (max 128 characters)"
    ELSE IF \E i \in 0..(Len(org) - 1) : ~orgRuneOk(At(org, i))
         THEN "organization name contains invalid characters: only alphanumeric, hyphens, and underscores are allowed"
    ELSE Nil

\* validateOrganization: the error returned, Nil when the name is accepted
validateOrganization(org) ==
    IF org = "" THEN Nil
    ELSE IF Len(org) > MaxOrgLen
         THEN "organization name too long (max 128 characters)"
    ELSE IF \E i \in 0..(Len(org) - 1) : ~orgRuneOk(At(org, i))
         THEN "organization name contains invalid characters: only alphanumeric, hyphens, and underscores are allowed"
    ELSE Nil

-----------------------------------------------------------------------------
(* Direct calls of the validators, as TestValidatePath and                 *)
(* TestValidateOrganization make them                                      *)

NotReturned == "<not returned>"

\* no string (arg, ret outside a direct call)
NoString == "<none>"

\* characters of the generated paths: the separator, the dot, a name character
PathChars == {"/", ".", "a"}

\* characters of the generated organizations: one of each accepted class and
\* two that are not accepted
OrgChars == {"a", "Z", "0", "-", "_", " ", ";"}

\* organizations around the length limit
LongOrgs ==
    { Repeat("a", MaxOrgLen - 1), Repeat("a", MaxOrgLen), Repeat("a", MaxOrgLen + 1),
      Repeat("a", MaxOrgLen - 1) \o ";", Repeat("a", MaxOrgLen) \o ";",
      Repeat("-", MaxOrgLen), Repeat("_", MaxOrgLen + 1), Repeat("a", 2 * MaxOrgLen) }

PathInputs == StringsUpTo(PathChars, MaxPathLen) \cup {"packages/my-lib", "../../../etc", "/etc/passwd", "packages/../../secret"}

OrgInputs == StringsUpTo(OrgChars, MaxOrgStrLen) \cup LongOrgs

Unused ==
    /\ environ = [name \in {} |-> ""]
    /\ req = NoValue
    /\ cfg = NoValue
    /\ calls = <<>>
    /\ resp = NoValue

\* nothing returned, no context cancelled, no child process, no concurrent host
Quiet ==
    /\ run = NoValue
    /\ err = NoString
    /\ ctx = "live"
    /\ child = NoValue
    /\ inv = <<>>

InitPath ==
    /\ pc = "call"
    /\ arg \in PathInputs
    /\ ret = NotReturned
    /\ Unused
    /\ Quiet

\* validatePath(arg) is called and returns
ValidatePathCall ==
    /\ pc = "call"
    /\ ret' = validatePath(arg)
    /\ pc' = "ret"
    /\ UNCHANGED <<environ, req, cfg, calls, resp, arg, run, err, ctx, child, inv>>

SpecPath == InitPath /\ [][ValidatePathCall]_vars

InitOrg ==
    /\ pc = "call"
    /\ arg \in OrgInputs
    /\ ret = NotReturned
    /\ Unused
    /\ Quiet

\* validateOrganization(arg) is called and returns
ValidateOrganizationCall ==
    /\ pc = "call"
    /\ ret' = validateOrganization(arg)
    /\ pc' = "ret"
    /\ UNCHANGED <<environ, req, cfg, calls, resp, arg, run, err, ctx, child, inv>>

SpecOrg == InitOrg /\ [][ValidateOrganizationCall]_vars

-----------------------------------------------------------------------------
(* Configuration resolver                                                  *)

\* values of the raw map[string]any: a missing key, a string, a bool
Absent == [t |-> "absent"]
Str(s) == [t |-> "string", v |-> s]
Bool(b) == [t |-> "bool", v |-> b]

\* os.Getenv: "" for a variable that is not set
Getenv(name) == IF name \in DOMAIN environ THEN environ[name] ELSE ""

\* ConfigParser.GetString(key, envVar, defaultVal) as parseConfig uses it: the
\* configured string, else the environment variable, else the default
\* (TestParseConfig). The requests below configure non-empty strings only.
GetString(raw, key, envVar, defaultVal) ==
    IF raw[key].t = "string" /\ raw[key].v # "" THEN raw[key].v
    ELSE IF envVar # "" /\ Getenv(envVar) # "" THEN Getenv(envVar)
    ELSE defaultVal

\* ConfigParser.GetBool(key, defaultVal) as parseConfig uses it: a bool, or the
\* strings "true" and "false", else the default
GetBool(raw, key, defaultVal) ==
    IF raw[key].t = "bool" THEN raw[key].v
    ELSE IF raw[key].t = "string" /\ raw[key].v \in {"true", "false"} THEN raw[key].v = "true"
    ELSE defaultVal

\* parseConfig with the organization's fallback copied from the credential's
parseConfig_OrgFromKeyVar(raw) ==
    [ APIKey       |-> GetString(raw, "api_key", "HEX_API_KEY", ""),
      Organization |-> GetString(raw, "organization", "HEX_API_KEY", ""),
      Replace      |-> GetBool(raw, "replace", FALSE),
      Yes          |-> GetBool(raw, "yes", TRUE),
      WorkDir      |-> GetString(raw, "work_dir", "", ".") ]


\* HexPlugin.parseConfig
parseConfig(raw) ==
    [ APIKey       |-> GetString(raw, "api_key", "HEX_API_KEY", ""),
      Organization |-> GetString(raw, "organization", "HEX_ORGANIZATION", ""),
      Replace      |-> GetBool(raw, "replace", FALSE),
      Yes          |-> GetBool(raw, "yes", TRUE),
      WorkDir      |-> GetString(raw, "work_dir", "", ".") ]

-----------------------------------------------------------------------------
(* Publish orchestrator                                                    *)

HookPostPublish == "post-publish"

\* a nil Outputs map
NoOutputs == [k \in {} |-> ""]

\* a plugin.ExecuteResponse; fields not set keep Go's zero value
Response(success, message, error, outputs) ==
    [Success |-> success, Message |-> message, Error |-> error, Outputs |-> outputs]

\* the validation without the check of the organization
validationFailure_SkipOrg(c) ==
    IF validatePath(c.WorkDir) # Nil
    THEN Response(FALSE, "", "invalid work_dir: " \o validatePath(c.WorkDir), NoOutputs)
    ELSE NoValue

\* the validation without the check of the work_dir
validationFailure_SkipDir(c) ==
    IF validateOrganization(c.Organization) # Nil
    THEN Response(FALSE, "", "invalid organization: " \o validateOrganization(c.Organization),
                  NoOutputs)
    ELSE NoValue

\* the validation with the organization checked before the work_dir
validationFailure_OrgFirst(c) ==
    IF validateOrganization(c.Organization) # Nil
    THEN Response(FALSE, "", "invalid organization: " \o validateOrganization(c.Organization),
                  NoOutputs)
    ELSE IF validatePath(c.WorkDir) # Nil
    THEN Response(FALSE, "", "invalid work_dir: " \o validatePath(c.WorkDir), NoOutputs)
    ELSE NoValue


\* publish, the validation of the configuration: the response returned, or
\* NoValue when both validators accept
validationFailure(c) ==
    IF validatePath(c.WorkDir) # Nil
    THEN Response(FALSE, "", "invalid work_dir: " \o validatePath(c.WorkDir), NoOutputs)
    ELSE IF validateOrganization(c.Organization) # Nil
    THEN Response(FALSE, "", "invalid organization: " \o validateOrganization(c.Organization),
                  NoOutputs)
    ELSE NoValue

\* the command arguments with --yes appended before --replace
buildArgs_YesBeforeReplace(c) ==
    LET args0 == <<"hex.publish">>
        args1 == IF c.Organization # ""
                 THEN args0 \o <<"--organization", c.Organization>> ELSE args0
        args2 == IF c.Yes THEN Append(args1, "--yes") ELSE args1
    IN  IF c.Replace THEN Append(args2, "--replace") ELSE args2

\* the command arguments with the API key passed as an argument
buildArgs_KeyAsArgument(c) ==
    LET args0 == <<"hex.publish">>
        args1 == IF c.Organization # ""
                 THEN args0 \o <<"--organization", c.Organization>> ELSE args0
        args2 == IF c.Replace THEN Append(args1, "--replace") ELSE args1
        args3 == IF c.Yes THEN Append(args2, "--yes") ELSE args2
    IN  IF c.APIKey # "" THEN args3 \o <<"--key", c.APIKey>> ELSE args3


\* publish, the command arguments
buildArgs(c) ==
    LET args0 == <<"hex.publish">>
        args1 == IF c.Organization # ""
                 THEN args0 \o <<"--organization", c.Organization>> ELSE args0
        args2 == IF c.Replace THEN Append(args1, "--replace") ELSE args1
    IN  IF c.Yes THEN Append(args2, "--yes") ELSE args2

\* the version with a leading "v" of either case removed
normalizeVersion_AnyCase(releaseVersion) ==
    IF HasPrefix(releaseVersion, "V") THEN Drop(releaseVersion, 1)
    ELSE TrimPrefix(releaseVersion, "v")


\* publish, the version reported
normalizeVersion(releaseVersion) == TrimPrefix(releaseVersion, "v")

\* the dry-run response with the command text lacking the tool name
dryRunResponse_ArgsOnly(c, args, version) ==
    Response(TRUE, "Would publish package to Hex.pm", "",
             [ command      |-> Join(args, " "),
               version      |-> version,
               organization |-> c.Organization,
               replace      |-> c.Replace ])

\* publish, the response of a dry run
dryRunResponse(c, args, version) ==
    Response(TRUE, "Would publish package to Hex.pm", "",
             [ command      |-> "mix " \o Join(args, " "),
               version      |-> version,
               organization |-> c.Organization,
               replace      |-> c.Replace ])

\* the response for a missing API key, with a message beside the error
missingKeyResponse_WithMessage ==
    Response(FALSE, "HEX_API_KEY is required",
             "HEX_API_KEY is required: set api_key in config or HEX_API_KEY environment variable",
             NoOutputs)


\* publish, the response when the API key is missing
missingKeyResponse ==
    Response(FALSE, "",
             "HEX_API_KEY is required: set api_key in config or HEX_API_KEY environment variable",
             NoOutputs)

\* publish, the call of the executor: Run(ctx, "mix", args, env, cfg.WorkDir)
executorCall(c, args) ==
    [ Name |-> "mix",
      Args |-> args,
      Env  |-> <<"HEX_API_KEY=" \o c.APIKey>>,
      Dir  |-> c.WorkDir ]

\* publish with the API key checked before the dry-run return
publish_KeyCheckFirst(c, releaseVersion, dryRun) ==
    IF validationFailure(c) # NoValue
    THEN [resp |-> validationFailure(c), err |-> Nil, call |-> NoValue]
    ELSE LET args    == buildArgs(c)
             version == normalizeVersion(releaseVersion)
         IN  IF c.APIKey = ""
             THEN [resp |-> missingKeyResponse, err |-> Nil, call |-> NoValue]
             ELSE IF dryRun
             THEN [resp |-> dryRunResponse(c, args, version), err |-> Nil, call |-> NoValue]
             ELSE [resp |-> NoValue, err |-> NoString, call |-> executorCall(c, args)]

\* publish without the check of the API key
publish_NoKeyCheck(c, releaseVersion, dryRun) ==
    IF validationFailure(c) # NoValue
    THEN [resp |-> validationFailure(c), err |-> Nil, call |-> NoValue]
    ELSE LET args    == buildArgs(c)
             version == normalizeVersion(releaseVersion)
         IN  IF dryRun
             THEN [resp |-> dryRunResponse(c, args, version), err |-> Nil, call |-> NoValue]
             ELSE [resp |-> NoValue, err |-> NoString, call |-> executorCall(c, args)]

\* publish without the dry-run return
publish_NoDryRun(c, releaseVersion, dryRun) ==
    IF validationFailure(c) # NoValue
    THEN [resp |-> validationFailure(c), err |-> Nil, call |-> NoValue]
    ELSE LET args == buildArgs(c)
         IN  IF c.APIKey = ""
             THEN [resp |-> missingKeyResponse, err |-> Nil, call |-> NoValue]
             ELSE [resp |-> NoValue, err |-> NoString, call |-> executorCall(c, args)]


\* publish up to its return or its call of the executor:
\* [resp |-> the response returned, or NoValue; err |-> the error returned with it;
\*  call |-> the executor call, or NoValue]
publish(c, releaseVersion, dryRun) ==
    IF validationFailure(c) # NoValue
    THEN [resp |-> validationFailure(c), err |-> Nil, call |-> NoValue]
    ELSE LET args    == buildArgs(c)
             version == normalizeVersion(releaseVersion)
         IN  IF dryRun
             THEN [resp |-> dryRunResponse(c, args, version), err |-> Nil, call |-> NoValue]
             ELSE IF c.APIKey = ""
             THEN [resp |-> missingKeyResponse, err |-> Nil, call |-> NoValue]
             ELSE [resp |-> NoValue, err |-> NoString, call |-> executorCall(c, args)]

\* the response of publish with the captured output left out of the outputs
publishResult_NoOutput(c, releaseVersion, output, runErr) ==
    LET version == normalizeVersion(releaseVersion) IN
    IF runErr # Nil
    THEN Response(FALSE, "",
                  "mix hex.publish failed: " \o runErr \o "\nOutput: " \o output, NoOutputs)
    ELSE Response(TRUE, "Published package v" \o version \o " to Hex.pm", "",
                  [ version      |-> version,
                    organization |-> c.Organization ])

\* the response of publish with the captured output left out of the error
publishResult_ErrorOnly(c, releaseVersion, output, runErr) ==
    LET version == normalizeVersion(releaseVersion) IN
    IF runErr # Nil
    THEN Response(FALSE, "", "mix hex.publish failed: " \o runErr, NoOutputs)
    ELSE Response(TRUE, "Published package v" \o version \o " to Hex.pm", "",
                  [ version      |-> version,
                    organization |-> c.Organization,
                    output       |-> output ])


\* publish after the executor returned (output, err): the response it builds
publishResult(c, releaseVersion, output, runErr) ==
    LET version == normalizeVersion(releaseVersion) IN
    IF runErr # Nil
    THEN Response(FALSE, "",
                  "mix hex.publish failed: " \o runErr \o "\nOutput: " \o output, NoOutputs)
    ELSE Response(TRUE, "Published package v" \o version \o " to Hex.pm", "",
                  [ version      |-> version,
                    organization |-> c.Organization,
                    output       |-> output ])

\* publish returning the executor's error as its own
publishReturn_PropagatesError(c, releaseVersion, output, runErr) ==
    [resp |-> publishResult(c, releaseVersion, output, runErr), err |-> runErr]


\* publish from the return of the executor to its own return: (response, error)
publishReturn(c, releaseVersion, output, runErr) ==
    [resp |-> publishResult(c, releaseVersion, output, runErr), err |-> Nil]

\* Execute, a hook the plugin does not handle
unhandledResponse(hook) == Response(TRUE, "Hook " \o hook \o " not handled", "", NoOutputs)

\* Execute validating the configuration before it looks at the hook
execute_ValidatesFirst(hook, rawConfig, dryRun, version) ==
    IF validationFailure(parseConfig(rawConfig)) # NoValue
    THEN [resp |-> validationFailure(parseConfig(rawConfig)), err |-> Nil, call |-> NoValue]
    ELSE IF hook = HookPostPublish
    THEN publish(parseConfig(rawConfig), version, dryRun)
    ELSE [resp |-> unhandledResponse(hook), err |-> Nil, call |-> NoValue]


\* HexPlugin.Execute up to its return or its call of the executor
execute(hook, rawConfig, dryRun, version) ==
    IF hook = HookPostPublish
    THEN publish(parseConfig(rawConfig), version, dryRun)
    ELSE [resp |-> unhandledResponse(hook), err |-> Nil, call |-> NoValue]

-----------------------------------------------------------------------------
(* The Execute entry point, called by the host with a recording executor   *)

\* work_dir values of the requests
Dirs ==
    (StringsUpTo(PathChars, MaxDirLen) \ {""})
        \cup {"packages/my-lib", "a/..", "a/../a", "..cache", "../../../etc", "/etc/passwd"}

\* organization values of the requests
Orgs ==
    (StringsUpTo({"a", "-", ";"}, MaxExecOrgLen) \ {""})
        \cup {"my-org", "--replace", "my org; rm -rf /",
              Repeat("a", MaxOrgLen), Repeat("a", MaxOrgLen + 1)}

\* the raw configurations of the requests
RawConfigs ==
    [ api_key      : {Absent, Str("config-key")},
      organization : {Absent} \cup {Str(o) : o \in Orgs},
      replace      : {Absent, Bool(TRUE)},
      yes          : {Absent, Bool(FALSE)},
      work_dir     : {Absent} \cup {Str(d) : d \in Dirs} ]

Hooks == {HookPostPublish, "pre-publish", "on-success"}

Versions == {"1.0.0", "v2.0.0"}

\* the process environments
Environs == [ HEX_API_KEY : {"", "env-key"}, HEX_ORGANIZATION : {"", "env-org"} ]

\* what the executor returns: (output, err)
RunOutcomes ==
    { <<"Published v1.0.0", Nil>>, <<"", Nil>>,
      <<"** (Mix) not authenticated", "exit status 1">>,
      <<"", "exec: \"mix\": executable file not found in $PATH">> }

Init ==
    /\ pc = "idle"
    /\ environ \in Environs
    /\ req = NoValue
    /\ cfg = NoValue
    /\ calls = <<>>
    /\ resp = NoValue
    /\ arg = NoString
    /\ ret = NoString
    /\ Quiet

\* HexPlugin.Execute, called with a request of the given sets, up to its return
\* or, within publish, its call of the executor, which records the call
ExecuteOf(hooks, rawConfigs, versions) ==
    /\ pc = "idle"
    /\ \E hook \in hooks, rawConfig \in rawConfigs, dryRun \in BOOLEAN, version \in versions :
        LET e == execute(hook, rawConfig, dryRun, version) IN
        /\ req' = [Hook |-> hook, Config |-> rawConfig, DryRun |-> dryRun,
                   Version |-> version]
        /\ cfg' = parseConfig(rawConfig)
        /\ IF e.call # NoValue
           THEN /\ calls' = Append(calls, e.call)
                /\ pc' = "executing"
                /\ UNCHANGED <<resp, err>>
           ELSE /\ calls' = calls
                /\ pc' = "done"
                /\ resp' = e.resp
                /\ err' = e.err
    /\ UNCHANGED <<environ, arg, ret, run, ctx, child, inv>>

\* HexPlugin.Execute, called with any request
Execute == ExecuteOf(Hooks, RawConfigs, Versions)

\* the executor returns (output, err) and publish returns its response
RunReturns ==
    /\ pc = "executing"
    /\ \E o \in RunOutcomes :
        /\ run' = [Output |-> o[1], Err |-> o[2]]
        /\ resp' = publishReturn(cfg, req.Version, o[1], o[2]).resp
        /\ err' = publishReturn(cfg, req.Version, o[1], o[2]).err
    /\ pc' = "done"
    /\ UNCHANGED <<environ, req, cfg, calls, arg, ret, ctx, child, inv>>

Next == Execute \/ RunReturns

Spec == Init /\ [][Next]_vars

-----------------------------------------------------------------------------
(* parseConfig called directly, as TestParseConfig calls it                *)

\* raw configurations: every key absent, of its own type, or of another type
ParseConfigs ==
    [ api_key      : {Absent, Str("config-key"), Bool(TRUE)},
      organization : {Absent, Str("my-org"), Bool(TRUE)},
      replace      : {Absent, Bool(TRUE), Bool(FALSE), Str("true"), Str("false")},
      yes          : {Absent, Bool(TRUE), Bool(FALSE), Str("true"), Str("false")},
      work_dir     : {Absent, Str("packages/lib"), Bool(TRUE)} ]

\* process environments: the two variables parseConfig names, and variables
\* named after the other fields, each unset ("") or set
ParseEnvirons ==
    [ HEX_API_KEY      : {"", "env-key"},
      HEX_ORGANIZATION : {"", "env-org"},
      HEX_REPLACE      : {"", "true"},
      HEX_YES          : {"", "false"},
      HEX_WORK_DIR     : {"", "env-dir"} ]

InitParse ==
    /\ pc = "call"
    /\ environ \in ParseEnvirons
    /\ req \in [Config : ParseConfigs]
    /\ cfg = NoValue
    /\ calls = <<>>
    /\ resp = NoValue
    /\ arg = NoString
    /\ ret = NoString
    /\ Quiet

ParseConfigCall ==
    /\ pc = "call"
    /\ cfg' = parseConfig(req.Config)
    /\ pc' = "done"
    /\ UNCHANGED <<environ, req, calls, resp, arg, ret, run, err, ctx, child, inv>>

SpecParse == InitParse /\ [][ParseConfigCall]_vars


-----------------------------------------------------------------------------
(* Execute on the post-publish hook over release versions                  *)

MaxVersionLen == 3

VersionChars == {"v", "V", "1"}

\* the release versions of the release context
ReleaseVersions == StringsUpTo(VersionChars, MaxVersionLen) \cup Versions

\* raw configurations that pass validation, with and without a credential
ReleaseConfigs ==
    [ api_key      : {Absent, Str("config-key")},
      organization : {Absent, Str("my-org")},
      replace      : {Absent},
      yes          : {Absent},
      work_dir     : {Absent} ]

ExecuteRelease == ExecuteOf({HookPostPublish}, ReleaseConfigs, ReleaseVersions)

NextRelease == ExecuteRelease \/ RunReturns

SpecRelease == Init /\ [][NextRelease]_vars


-----------------------------------------------------------------------------
(* The Validate entry point                                                *)

\* helpers.ValidationBuilder: the errors added so far, in order
NewValidationBuilder == <<>>

AddError(vb, field, message) == Append(vb, [Field |-> field, Message |-> message])

\* ValidationBuilder.Build: valid when no error was added
Build(vb) == [Valid |-> Len(vb) = 0, Errors |-> vb]

\* Validate reading the organization from the configuration only
Validate_OrgFromConfigOnly(config) ==
    LET workDir == GetString(config, "work_dir", "", ".")
        vb1 == IF validatePath(workDir) # Nil
               THEN AddError(NewValidationBuilder, "work_dir", validatePath(workDir))
               ELSE NewValidationBuilder
        org == GetString(config, "organization", "", "")
        vb2 == IF validateOrganization(org) # Nil
               THEN AddError(vb1, "organization", validateOrganization(org))
               ELSE vb1
    IN  [resp |-> Build(vb2), err |-> Nil]

\* Validate without the check of the work_dir
Validate_SkipsWorkDir(config) ==
    LET org == GetString(config, "organization", "HEX_ORGANIZATION", "")
        vb  == IF validateOrganization(org) # Nil
               THEN AddError(NewValidationBuilder, "organization", validateOrganization(org))
               ELSE NewValidationBuilder
    IN  [resp |-> Build(vb), err |-> Nil]


\* HexPlugin.Validate: (response, error)
Validate(config) ==
    LET workDir == GetString(config, "work_dir", "", ".")
        vb1 == IF validatePath(workDir) # Nil
               THEN AddError(NewValidationBuilder, "work_dir", validatePath(workDir))
               ELSE NewValidationBuilder
        org == GetString(config, "organization", "HEX_ORGANIZATION", "")
        vb2 == IF validateOrganization(org) # Nil
               THEN AddError(vb1, "organization", validateOrganization(org))
               ELSE vb1
    IN  [resp |-> Build(vb2), err |-> Nil]

\* raw configurations given to Validate: the recognized keys and one the
\* plugin does not know; a nil map reads as one with every key absent
ValidateConfigs ==
    [ api_key      : {Absent, Str("config-key")},
      organization : {Absent} \cup {Str(o) : o \in Orgs},
      replace      : {Absent, Bool(TRUE)},
      yes          : {Absent},
      work_dir     : {Absent} \cup {Str(d) : d \in Dirs},
      unknown_key  : {Absent, Str("value")} ]

ValidateEnvirons ==
    [ HEX_API_KEY : {"", "env-key"}, HEX_ORGANIZATION : {"", "env-org", "env org"} ]

InitValidate ==
    /\ pc = "idle"
    /\ environ \in ValidateEnvirons
    /\ req = NoValue
    /\ cfg = NoValue
    /\ calls = <<>>
    /\ resp = NoValue
    /\ arg = NoString
    /\ ret = NoString
    /\ Quiet

ValidateCall ==
    /\ pc = "idle"
    /\ \E config \in ValidateConfigs :
        /\ req' = [Config |-> config]
        /\ resp' = Validate(config).resp
        /\ err' = Validate(config).err
    /\ pc' = "done"
    /\ UNCHANGED <<environ, cfg, calls, arg, ret, run, ctx, child, inv>>

SpecValidate == InitValidate /\ [][ValidateCall]_vars


-----------------------------------------------------------------------------
(* RealCommandExecutor.Run: the command, its child process and its return  *)

\* the name of an environment entry "NAME=value": what precedes the first "="
EnvKey(entry) ==
    LET eqs == {i \in 0..(Len(entry) - 1) : At(entry, i) = "="}
    IN  IF eqs = {} THEN entry
        ELSE Take(entry, CHOOSE i \in eqs : \A j \in eqs : i <= j)

\* the value of an environment entry: what follows the first "="
EnvValue(entry) == Drop(entry, Len(EnvKey(entry)) + 1)

\* the names of the process environment, in the order os.Environ lists them
EnvNames == <<"HEX_API_KEY", "HEX_ORGANIZATION">>

\* os.Environ: one entry "NAME=value" for every variable that is set
Environ ==
    LET entries == [i \in 1..Len(EnvNames) |-> EnvNames[i] \o "=" \o Getenv(EnvNames[i])]
    IN  SelectSeq(entries, LAMBDA e : EnvValue(e) # "")

\* cmd.Env: a nil slice when Run does not set it, else a list of entries
NilEnv == [nil |-> TRUE, list |-> <<>>]

EnvList(entries) == [nil |-> FALSE, list |-> entries]

\* Run's command with the inherited environment after the overrides
command_InheritedLast(name, args, env, dir) ==
    [ Path |-> name,
      Args |-> args,
      Env  |-> IF Len(env) > 0 THEN EnvList(env \o Environ) ELSE NilEnv,
      Dir  |-> dir ]

\* the exec.Cmd Run builds: exec.CommandContext(ctx, name, args...), cmd.Env
\* set when there are overrides, cmd.Dir set when dir is not empty
command(name, args, env, dir) ==
    [ Path |-> name,
      Args |-> args,
      Env  |-> IF Len(env) > 0 THEN EnvList(Environ \o env) ELSE NilEnv,
      Dir  |-> IF dir # "" THEN dir ELSE "" ]

\* the environment a list of entries gives a process: of several entries of
\* one name the last one counts
RECURSIVE EnvMap(_)
EnvMap(entries) ==
    IF Len(entries) = 0 THEN [n \in {} |-> ""]
    ELSE LET front == EnvMap(SubSeq(entries, 1, Len(entries) - 1))
             entry == entries[Len(entries)]
         IN  [n \in DOMAIN front \cup {EnvKey(entry)} |->
                 IF n = EnvKey(entry) THEN EnvValue(entry) ELSE front[n]]

\* the working directory of the plugin's process
Getwd == "/project"

\* the process Cmd.Start creates: the parent's environment when cmd.Env is
\* nil, the parent's directory when cmd.Dir is empty; it runs, has written
\* nothing, and holds the only write end of the output pipe
startProcess(cmd) ==
    [ Path     |-> cmd.Path,
      Args     |-> cmd.Args,
      Env      |-> IF cmd.Env.nil THEN EnvMap(Environ) ELSE EnvMap(cmd.Env.list),
      Dir      |-> IF cmd.Dir = "" THEN Getwd ELSE cmd.Dir,
      state    |-> "running",
      writes   |-> <<>>,
      code     |-> 0,
      held     |-> FALSE,
      watchErr |-> Nil ]

\* what CombinedOutput captures: the writes to stdout and to stderr, in order
RECURSIVE CombinedOutput(_)
CombinedOutput(writes) ==
    IF Len(writes) = 0 THEN "" ELSE writes[1].text \o CombinedOutput(Tail(writes))

\* the wait status of a process ended by Process.Kill, where an exit code is
\* 0 or 1
Killed == -1

\* the error Cmd.Wait returns: the exit status of a process that failed, else
\* the error of the context that was cancelled before the process was reaped
waitError(p) ==
    IF p.code = Killed THEN "signal: killed"
    ELSE IF p.code # 0 THEN "exit status 1"
    ELSE p.watchErr


\* how a child ends by itself: what it wrote and its exit code
ExitOutcomes ==
    { [writes |-> <<[stream |-> "stdout", text |-> "Published v1.0.0"]>>, code |-> 0],
      [writes |-> <<[stream |-> "stdout", text |-> "Publishing. "],
                    [stream |-> "stderr", text |-> "** (Mix) not authenticated"]>>, code |-> 1] }

\* what a child may have written when it is killed
PartialWrites == { <<>>, <<[stream |-> "stdout", text |-> "Publishing. "]>> }

\* the error of Cmd.Start for a command that is not found
StartError == "exec: \"mix\": executable file not found in $PATH"

\* the error of a cancelled context
Canceled == "context canceled"

\* the context the command watches without the context of the caller
cmdCtx_Background == "live"

\* the context the command watches: exec.CommandContext(ctx, ...)
cmdCtx == ctx

\* the call Run is executing
CurrentCall == calls[Len(calls)]

\* Run up to Cmd.Start: with a context already cancelled, or a command that
\* cannot be started, it returns the error; else the child runs
StartChild ==
    /\ pc = "executing"
    /\ child = NoValue
    /\ \/ /\ cmdCtx = "cancelled"
          /\ run' = [Output |-> "", Err |-> Canceled]
          /\ pc' = "returned"
          /\ child' = child
       \/ /\ cmdCtx # "cancelled"
          /\ run' = [Output |-> "", Err |-> StartError]
          /\ pc' = "returned"
          /\ child' = child
       \/ /\ cmdCtx # "cancelled"
          /\ child' = startProcess(command(CurrentCall.Name, CurrentCall.Args,
                                            CurrentCall.Env, CurrentCall.Dir))
          /\ UNCHANGED <<pc, run>>
    /\ UNCHANGED <<environ, req, cfg, calls, resp, arg, ret, err, ctx, inv>>

\* the child ends by itself; a descendant may keep its output pipe open
ChildExits ==
    /\ child # NoValue
    /\ child.state = "running"
    /\ \E o \in ExitOutcomes, h \in BOOLEAN :
        child' = [child EXCEPT !.state = "exited", !.writes = o.writes,
                               !.code = o.code, !.held = h]
    /\ UNCHANGED <<pc, environ, req, cfg, calls, resp, arg, ret, run, err, ctx, inv>>

\* Process.Wait returns: the child that ended is reaped
ProcessWait ==
    /\ child # NoValue
    /\ child.state = "exited"
    /\ child' = [child EXCEPT !.state = "reaped"]
    /\ UNCHANGED <<pc, environ, req, cfg, calls, resp, arg, ret, run, err, ctx, inv>>

\* the last descendant holding the output pipe ends
DescendantExits ==
    /\ child # NoValue
    /\ child.state # "running"
    /\ child.held
    /\ child' = [child EXCEPT !.held = FALSE]
    /\ UNCHANGED <<pc, environ, req, cfg, calls, resp, arg, ret, run, err, ctx, inv>>

\* CombinedOutput returns once the child is reaped and the pipe is closed
RunReturn ==
    /\ pc = "executing"
    /\ child # NoValue
    /\ child.state = "reaped"
    /\ ~child.held
    /\ run' = [Output |-> CombinedOutput(child.writes), Err |-> waitError(child)]
    /\ pc' = "returned"
    /\ UNCHANGED <<environ, req, cfg, calls, resp, arg, ret, err, ctx, child, inv>>

\* the calls of Run: overrides of an inherited variable, a new variable, a
\* value holding "=", and none
RunCalls ==
    [ Name : {"mix"},
      Args : {<<"hex.publish">>, <<"hex.publish", "--organization", "my-org", "--yes">>},
      Env  : {<<>>, <<"HEX_API_KEY=new">>, <<"HEX_API_KEY=a=b", "MIX_ENV=prod">>},
      Dir  : {"", "packages/my-lib"} ]

InitRun ==
    /\ pc = "executing"
    /\ environ \in Environs
    /\ req = NoValue
    /\ cfg = NoValue
    /\ calls \in {<<call>> : call \in RunCalls}
    /\ resp = NoValue
    /\ arg = NoString
    /\ ret = NoString
    /\ Quiet

NextRun == StartChild \/ ChildExits \/ ProcessWait \/ DescendantExits \/ RunReturn

SpecRun == InitRun /\ [][NextRun]_vars


-----------------------------------------------------------------------------
(* Execute with the real executor, under a host that may cancel            *)

\* the goroutine exec.CommandContext starts: when the context is done it
\* kills the child; a child that already ended but is not reaped takes the
\* signal without effect, and Wait then reports the context's error (Go 1.20
\* and later) or nothing (before)
KillChild ==
    /\ cmdCtx = "cancelled"
    /\ child # NoValue
    /\ child.state \in {"running", "exited"}
    /\ child.watchErr = Nil
    /\ IF child.state = "running"
       THEN \E w \in PartialWrites, h \in BOOLEAN :
               child' = [child EXCEPT !.state = "exited", !.writes = w, !.code = Killed,
                                      !.held = h, !.watchErr = Canceled]
       ELSE \E e \in {Canceled, Nil} : child' = [child EXCEPT !.watchErr = e]
    /\ UNCHANGED <<pc, environ, req, cfg, calls, resp, arg, ret, run, err, ctx, inv>>

\* the host cancels the context of the invocation, or its timeout fires,
\* while publish is in its call of the executor
Cancel ==
    /\ pc = "executing"
    /\ ctx = "live"
    /\ ctx' = "cancelled"
    /\ UNCHANGED <<pc, environ, req, cfg, calls, resp, arg, ret, run, err, child, inv>>

\* publish returns its response after Run has returned
PublishReturns ==
    /\ pc = "returned"
    /\ resp' = publishReturn(cfg, req.Version, run.Output, run.Err).resp
    /\ err' = publishReturn(cfg, req.Version, run.Output, run.Err).err
    /\ pc' = "done"
    /\ UNCHANGED <<environ, req, cfg, calls, arg, ret, run, ctx, child, inv>>

ExecuteCancellable == ExecuteOf({HookPostPublish}, ReleaseConfigs, {"1.0.0"})

NextCancel ==
    \/ ExecuteCancellable
    \/ Cancel
    \/ StartChild
    \/ ChildExits
    \/ KillChild
    \/ ProcessWait
    \/ DescendantExits
    \/ RunReturn
    \/ PublishReturns

\* the plugin's own steps and the goroutine that watches the context are
\* scheduled; the child, its descendants and the host need never act
SpecCancel ==
    /\ Init
    /\ [][NextCancel]_vars
    /\ WF_vars(StartChild)
    /\ WF_vars(KillChild)
    /\ WF_vars(ProcessWait)
    /\ WF_vars(RunReturn)
    /\ WF_vars(PublishReturns)


-----------------------------------------------------------------------------
(* A host that calls Execute and Validate concurrently                     *)

\* the number of concurrent invocations
Invocations == 2

\* where an invocation keeps its Config if it were a field of the plugin
slot_Shared(i) == 1

\* where invocation i keeps its Config: cfg is a local variable of Execute,
\* passed to publish by value, so every invocation has its own
slot(i) == i

ConcurrentConfigs ==
    [ api_key      : {Absent, Str("config-key")},
      organization : {Absent, Str("my-org")},
      replace      : {Absent},
      yes          : {Absent},
      work_dir     : {Absent} ]

ConcurrentRequests ==
    [ Kind : {"execute"}, Hook : {HookPostPublish},
      Config : ConcurrentConfigs, DryRun : BOOLEAN, Version : {"1.0.0"} ]
        \cup [ Kind : {"validate"}, Hook : {""}, Config : ConcurrentConfigs,
               DryRun : {FALSE}, Version : {""} ]

\* what the subprocess of an invocation returns: success or failure
ConcurrentOutcomes ==
    { <<"Published v1.0.0", Nil>>, <<"** (Mix) not authenticated", "exit status 1">> }

\* an invocation that has not been called yet
NotCalled ==
    [pc |-> "idle", req |-> NoValue, call |-> NoValue, run |-> NoValue,
     resp |-> NoValue, err |-> NoString]

InitConcurrent ==
    /\ pc = "idle"
    /\ environ \in Environs
    /\ req = NoValue
    /\ cfg = [i \in 1..Invocations |-> NoValue]
    /\ calls = <<>>
    /\ resp = NoValue
    /\ arg = NoString
    /\ ret = NoString
    /\ run = NoValue
    /\ err = NoString
    /\ ctx = "live"
    /\ child = NoValue
    /\ inv = [i \in 1..Invocations |-> NotCalled]

\* Execute of invocation i up to cfg := p.parseConfig(req.Config)
InvParse(i) ==
    /\ inv[i].pc = "idle"
    /\ \E r \in ConcurrentRequests :
        /\ r.Kind = "execute"
        /\ inv' = [inv EXCEPT ![i].pc = "parsed", ![i].req = r]
        /\ cfg' = [cfg EXCEPT ![slot(i)] = parseConfig(r.Config)]
    /\ UNCHANGED <<pc, environ, req, calls, resp, arg, ret, run, err, ctx, child>>

\* Execute of invocation i from its switch to its return or its call of Run
InvPublish(i) ==
    /\ inv[i].pc = "parsed"
    /\ LET r == inv[i].req
           e == IF r.Hook = HookPostPublish
                THEN publish(cfg[slot(i)], r.Version, r.DryRun)
                ELSE [resp |-> unhandledResponse(r.Hook), err |-> Nil, call |-> NoValue]
       IN  IF e.call # NoValue
           THEN inv' = [inv EXCEPT ![i].pc = "executing", ![i].call = e.call]
           ELSE inv' = [inv EXCEPT ![i].pc = "done", ![i].resp = e.resp, ![i].err = e.err]
    /\ UNCHANGED <<pc, environ, req, cfg, calls, resp, arg, ret, run, err, ctx, child>>

\* the subprocess of invocation i ends, Run returns and publish returns
InvRunReturns(i) ==
    /\ inv[i].pc = "executing"
    /\ \E o \in ConcurrentOutcomes :
        LET r == publishReturn(cfg[slot(i)], inv[i].req.Version, o[1], o[2]) IN
        inv' = [inv EXCEPT ![i].pc = "done", ![i].run = [Output |-> o[1], Err |-> o[2]],
                           ![i].resp = r.resp, ![i].err = r.err]
    /\ UNCHANGED <<pc, environ, req, cfg, calls, resp, arg, ret, run, err, ctx, child>>

\* Validate of invocation i
InvValidate(i) ==
    /\ inv[i].pc = "idle"
    /\ \E r \in ConcurrentRequests :
        /\ r.Kind = "validate"
        /\ inv' = [inv EXCEPT ![i].pc = "done", ![i].req = r,
                              ![i].resp = Validate(r.Config).resp,
                              ![i].err = Validate(r.Config).err]
    /\ UNCHANGED <<pc, environ, req, cfg, calls, resp, arg, ret, run, err, ctx, child>>

NextConcurrent ==
    \E i \in 1..Invocations :
        InvParse(i) \/ InvPublish(i) \/ InvRunReturns(i) \/ InvValidate(i)

SpecConcurrent == InitConcurrent /\ [][NextConcurrent]_vars


-----------------------------------------------------------------------------
(* A host that executes a release with a configuration and validates it    *)

AgreeConfigs ==
    [ api_key      : {Absent, Str("config-key")},
      organization : {Absent} \cup {Str(o) : o \in Orgs},
      replace      : {Absent},
      yes          : {Absent},
      work_dir     : {Absent} \cup {Str(d) : d \in Dirs} ]

InitAgree ==
    /\ pc = "idle"
    /\ environ \in ValidateEnvirons
    /\ req = NoValue
    /\ cfg = NoValue
    /\ calls = <<>>
    /\ resp = NoValue
    /\ arg = NoString
    /\ ret = NoString
    /\ Quiet

ExecuteAgree == ExecuteOf({HookPostPublish}, AgreeConfigs, {"1.0.0"})

\* Validate, called with the configuration of the Execute request
ValidateSame ==
    /\ pc = "done"
    /\ inv = <<>>
    /\ inv' = <<Validate(req.Config)>>
    /\ UNCHANGED <<pc, environ, req, cfg, calls, resp, arg, ret, run, err, ctx, child>>

NextAgree == ExecuteAgree \/ RunReturns \/ ValidateSame

SpecAgree == InitAgree /\ [][NextAgree]_vars


-----------------------------------------------------------------------------
(* A host that executes a release twice, the second request being the      *)
(* first with another dry-run flag or another credential                    *)

\* the api_key values of the two requests
PairKeys == {Absent, Str("config-key"), Str("other-key")}

\* the raw configurations of the first request
PairConfigs ==
    [ api_key      : PairKeys,
      organization : {Absent, Str("my-org"), Str("my org")},
      replace      : {Absent, Bool(TRUE)},
      yes          : {Absent, Bool(FALSE)},
      work_dir     : {Absent, Str("packages/my-lib"), Str("../../../etc")} ]

PairEnvirons == [ HEX_API_KEY : {"", "env-key"}, HEX_ORGANIZATION : {""} ]

InitPair ==
    /\ pc = "idle"
    /\ environ \in PairEnvirons
    /\ req = NoValue
    /\ cfg = NoValue
    /\ calls = <<>>
    /\ resp = NoValue
    /\ arg = NoString
    /\ ret = NoString
    /\ Quiet

\* the first call of HexPlugin.Execute
ExecuteFirst == ExecuteOf({HookPostPublish}, PairConfigs, Versions)

\* the second call of HexPlugin.Execute, with a fresh recording executor: the
\* host keeps what the first call returned and recorded
ExecuteSecond ==
    /\ pc = "done"
    /\ inv = <<>>
    /\ \E dryRun \in BOOLEAN, key \in PairKeys :
        LET rawConfig == [req.Config EXCEPT !.api_key = key]
            e         == execute(req.Hook, rawConfig, dryRun, req.Version)
        IN  /\ inv' = << [ req |-> req, cfg |-> cfg, calls |-> calls,
                           run |-> run, resp |-> resp, err |-> err ] >>
            /\ req' = [req EXCEPT !.Config = rawConfig, !.DryRun = dryRun]
            /\ cfg' = parseConfig(rawConfig)
            /\ run' = NoValue
            /\ IF e.call # NoValue
               THEN /\ calls' = <<e.call>>
                    /\ pc' = "executing"
                    /\ resp' = NoValue
                    /\ err' = NoString
               ELSE /\ calls' = <<>>
                    /\ pc' = "done"
                    /\ resp' = e.resp
                    /\ err' = e.err
    /\ UNCHANGED <<environ, arg, ret, ctx, child>>

NextPair == ExecuteFirst \/ ExecuteSecond \/ RunReturns

SpecPair == InitPair /\ [][NextPair]_vars


-----------------------------------------------------------------------------
(* Vocabulary of the properties                                            *)

\* an Execute request on the post-publish hook has been received
PostPublish == pc \in {"executing", "done"} /\ req.Hook = HookPostPublish

\* the resolved configuration passes both validators
ConfigValid ==
    validatePath(cfg.WorkDir) = Nil /\ validateOrganization(cfg.Organization) = Nil

\* the path components of a path: the pieces between separators
RECURSIVE Segments(_)
Segments(path) ==
    IF ~Contains(path, "/") THEN <<path>>
    ELSE LET k == CHOOSE i \in 0..(Len(path) - 1) :
                      At(path, i) = "/" /\ \A j \in 0..(i - 1) : At(path, j) # "/"
         IN  <<Take(path, k)>> \o Segments(Drop(path, k + 1))

\* the path has a parent-directory segment as a path component
HasDotDotSegment(path) == \E i \in 1..Len(Segments(path)) : Segments(path)[i] = ".."

\* the path begins at the root
IsAbsolutePath(path) == path # "" /\ At(path, 0) = "/"

\* walking the segments from a directory at depth 0, the walk climbs above it
RECURSIVE ClimbsAbove(_, _)
ClimbsAbove(segs, depth) ==
    IF Len(segs) = 0 THEN FALSE
    ELSE IF Head(segs) \in {"", "."} THEN ClimbsAbove(Tail(segs), depth)
    ELSE IF Head(segs) = ".."
         THEN depth = 0 \/ ClimbsAbove(Tail(segs), depth - 1)
    ELSE ClimbsAbove(Tail(segs), depth + 1)

\* the relative path leaves the directory it is taken from
Escapes(path) == ClimbsAbove(Segments(path), 0)

\* the identifier grammar [A-Za-z0-9_-]
OrgAlphabet == LowerChars \cup UpperChars \cup DigitChars \cup {"-", "_"}
OnlyOrgAlphabet(s) == \A i \in 0..(Len(s) - 1) : At(s, i) \in OrgAlphabet

\* the argument list the configuration stands for: hex.publish, then
\* --organization <org> iff the organization is non-empty, then --replace iff
\* replace, then --yes iff yes
ExpectedArgs(c) ==
    <<"hex.publish">>
        \o (IF c.Organization = "" THEN <<>> ELSE <<"--organization", c.Organization>>)
        \o (IF c.Replace THEN <<"--replace">> ELSE <<>>)
        \o (IF c.Yes THEN <<"--yes">> ELSE <<>>)

\* the organization an executor call passes: the token after --organization
OrgOfCall(call) ==
    IF Len(call.Args) >= 3 /\ call.Args[2] = "--organization" THEN call.Args[3] ELSE ""

\* the release version without one leading "v"
ExpectedVersion(v) == IF v # "" /\ At(v, 0) = "v" THEN Drop(v, 1) ELSE v

-----------------------------------------------------------------------------
(* Properties                                                              *)

\* C1: a post-publish request whose resolved work_dir or organization fails
\* its validator is answered with success=false, the executor is never
\* invoked, and the error starts with "invalid work_dir: " when the work_dir
\* fails and with "invalid organization: " when only the organization fails;
\* whatever the dry-run flag and the credential.
C1_InvalidConfigRejected ==
    (PostPublish /\ ~ConfigValid) =>
        /\ pc = "done"
        /\ resp.Success = FALSE
        /\ calls = <<>>
        /\ (validatePath(cfg.WorkDir) # Nil) => HasPrefix(resp.Error, "invalid work_dir: ")
        /\ (validatePath(cfg.WorkDir) = Nil) => HasPrefix(resp.Error, "invalid organization: ")

\* C1 witness: a dry run without credential refused for its organization
C1_Witness ==
    /\ PostPublish
    /\ req.DryRun
    /\ cfg.APIKey = ""
    /\ validatePath(cfg.WorkDir) = Nil
    /\ validateOrganization(cfg.Organization) # Nil
    /\ resp.Success = FALSE

C4_ExecutorCall ==
    \A i \in 1..Len(calls) :
        calls[i] = [ Name |-> "mix",
                     Args |-> ExpectedArgs(cfg),
                     Env  |-> <<"HEX_API_KEY=" \o cfg.APIKey>>,
                     Dir  |-> cfg.WorkDir ]

\* C4 witness: a call with organization, --replace and --yes
C4_Witness ==
    /\ Len(calls) = 1
    /\ calls[1].Args = <<"hex.publish", "--organization", "my-org", "--replace", "--yes">>
    /\ calls[1].Env = <<"HEX_API_KEY=env-key">>
    /\ calls[1].Dir = "packages/my-lib"

\* C5: the outputs of a valid dry run are the command text ("mix" and the
\* arguments joined by single spaces), the normalized version, the resolved
\* organization and the resolved replace flag.
C5_DryRunOutputs ==
    (PostPublish /\ req.DryRun /\ ConfigValid) =>
        /\ pc = "done"
        /\ DOMAIN resp.Outputs = {"command", "version", "organization", "replace"}
        /\ resp.Outputs.command = Join(<<"mix">> \o ExpectedArgs(cfg), " ")
        /\ resp.Outputs.version = ExpectedVersion(req.Version)
        /\ resp.Outputs.organization = cfg.Organization
        /\ resp.Outputs.replace = cfg.Replace
        /\ (cfg.Organization = "my-org" /\ cfg.Replace /\ cfg.Yes) =>
               resp.Outputs.command = "mix hex.publish --organization my-org --replace --yes"

\* C5 witness: the dry run of my-org with replace and yes, version v2.0.0
C5_Witness ==
    /\ PostPublish
    /\ req.DryRun
    /\ ConfigValid
    /\ cfg.Organization = "my-org" /\ cfg.Replace /\ cfg.Yes
    /\ req.Version = "v2.0.0"
    /\ resp.Outputs.version = "2.0.0"

C7_RelativePathsAccepted ==
    (pc = "ret" /\ ~IsAbsolutePath(arg) /\ ~HasDotDotSegment(arg)) => ret = Nil

\* C8: validateOrganization accepts exactly the strings of at most 128
\* characters, all of them in [A-Za-z0-9_-], the empty string included.
C8_OrganizationGrammar ==
    pc = "ret" => (ret = Nil <=> (Len(arg) <= 128 /\ OnlyOrgAlphabet(arg)))

\* C8 witness: a name of exactly 128 accepted characters has been accepted
C8_Witness ==
    /\ pc = "ret"
    /\ Len(arg) = 128
    /\ OnlyOrgAlphabet(arg)
    /\ ret = Nil

\* C9: the token that follows "--organization" in an executor call never
\* begins with "-", so the publish tool cannot take it for an option.
C9_NoOptionInjection ==
    \A i \in 1..Len(calls) : ~HasPrefix(OrgOfCall(calls[i]), "-")

ExplicitString(raw, key) == raw[key].t = "string"

\* the explicit value of a boolean field: a bool, or the string "true" or "false"
ExplicitBool(raw, key) ==
    \/ raw[key].t = "bool"
    \/ raw[key].t = "string" /\ raw[key].v \in {"true", "false"}

BoolOf(value) == IF value.t = "bool" THEN value.v ELSE value.v = "true"

C12_VersionNormalized ==
    (pc = "done" /\ "version" \in DOMAIN resp.Outputs) =>
        LET version == resp.Outputs.version IN
        /\ version = ExpectedVersion(req.Version)
        /\ ~req.DryRun => resp.Message = "Published package v" \o version \o " to Hex.pm"
        /\ req.Version = "v2.0.0" => version = "2.0.0"
        /\ ~HasPrefix(req.Version, "v") => version = req.Version
        /\ HasPrefix(req.Version, "V") => version = req.Version
        /\ HasPrefix(req.Version, "vv") =>
              /\ HasPrefix(version, "v")
              /\ Len(version) = Len(req.Version) - 1

\* a publication of release "vV1" reports "V1"
C12_Witness ==
    /\ pc = "done"
    /\ ~req.DryRun
    /\ req.Version = "vV1"
    /\ resp.Success
    /\ resp.Outputs.version = "V1"
    /\ resp.Message = "Published package vV1 to Hex.pm"


\* the executor was invoked and has returned
ExecutorReturned == pc = "done" /\ run # NoValue

\* C13: when the executor is invoked and returns no error, the response has
\* success=true, message "Published package v<normalized version> to Hex.pm"
\* and the outputs version (normalized), organization (resolved) and output
\* (the captured output as returned).
C13_PublishSucceeded ==
    (ExecutorReturned /\ run.Err = Nil) =>
        /\ resp.Success
        /\ resp.Message = "Published package v" \o ExpectedVersion(req.Version) \o " to Hex.pm"
        /\ DOMAIN resp.Outputs = {"version", "organization", "output"}
        /\ resp.Outputs.version = ExpectedVersion(req.Version)
        /\ resp.Outputs.organization = cfg.Organization
        /\ resp.Outputs.output = run.Output

\* release 1.0.0 of organization my-org, the tool printing "Published v1.0.0"
C13_Witness ==
    /\ ExecutorReturned
    /\ run = [Output |-> "Published v1.0.0", Err |-> Nil]
    /\ req.Version = "1.0.0"
    /\ cfg.Organization = "my-org"
    /\ resp.Success
    /\ resp.Message = "Published package v1.0.0 to Hex.pm"
    /\ resp.Outputs.output = "Published v1.0.0"

\* C14: when the executor is invoked and returns an error, the response has
\* success=false, an error that starts with "mix hex.publish failed" and
\* contains both the executor's error and the captured output, no outputs,
\* and the executor has been invoked once only.
C14_PublishFailed ==
    (ExecutorReturned /\ run.Err # Nil) =>
        /\ ~resp.Success
        /\ HasPrefix(resp.Error, "mix hex.publish failed")
        /\ Contains(resp.Error, run.Err)
        /\ Contains(resp.Error, run.Output)
        /\ resp.Outputs = NoOutputs
        /\ Len(calls) = 1

\* the tool exits with status 1 after printing its diagnosis
C14_Witness ==
    /\ ExecutorReturned
    /\ run = [Output |-> "** (Mix) not authenticated", Err |-> "exit status 1"]
    /\ ~resp.Success
    /\ resp.Error = "mix hex.publish failed: exit status 1\nOutput: ** (Mix) not authenticated"
    /\ Len(calls) = 1

\* C15: for every hook other than post-publish, Execute returns success=true
\* with message "Hook <hook> not handled", whatever the configuration
\* (invalid work_dir or organization, empty credential) and the dry-run flag,
\* and the executor is never invoked.
C15_UnhandledHook ==
    (pc # "idle" /\ req.Hook # HookPostPublish) =>
        /\ pc = "done"
        /\ resp.Success
        /\ resp.Message = "Hook " \o req.Hook \o " not handled"
        /\ resp.Error = ""
        /\ calls = <<>>

\* pre-publish with a work_dir and an organization that fail validation, no
\* credential and no dry run
C15_Witness ==
    /\ pc = "done"
    /\ req.Hook = "pre-publish"
    /\ ~req.DryRun
    /\ cfg.WorkDir = "../../../etc"
    /\ cfg.Organization = "my org; rm -rf /"
    /\ cfg.APIKey = ""
    /\ resp.Success
    /\ resp.Message = "Hook pre-publish not handled"
    /\ calls = <<>>

\* the request fails: invalid path, invalid organization, missing credential
\* or failure of the subprocess
RequestFails ==
    /\ PostPublish
    /\ \/ ~ConfigValid
       \/ ~req.DryRun /\ cfg.APIKey = ""
       \/ run # NoValue /\ run.Err # Nil

\* C16: Execute returns a response and a nil error for every hook,
\* configuration, dry-run flag, release version and executor outcome, and a
\* request that fails is answered with success=false and a non-empty error.
C16_NoTransportError ==
    pc = "done" =>
        /\ resp # NoValue
        /\ err = Nil
        /\ RequestFails => (~resp.Success /\ resp.Error # "")

\* the executor could not start the tool: the error is in the response only
C16_Witness ==
    /\ ExecutorReturned
    /\ run.Err = "exec: \"mix\": executable file not found in $PATH"
    /\ err = Nil
    /\ ~resp.Success
    /\ HasPrefix(resp.Error, "mix hex.publish failed: exec: ")


\* the work_dir Validate resolves: the configured string, else "."
ResolvedWorkDir ==
    IF ExplicitString(req.Config, "work_dir") THEN req.Config.work_dir.v ELSE "."

\* the organization Validate resolves: the configured string, else HEX_ORGANIZATION
ResolvedOrganization ==
    IF ExplicitString(req.Config, "organization") THEN req.Config.organization.v
    ELSE environ.HEX_ORGANIZATION

\* the fields the errors of a validation response are attributed to, in order
ErrorFields(errors) == [i \in 1..Len(errors) |-> errors[i].Field]

\* C17: Validate answers valid=true exactly when the resolved work_dir passes
\* validatePath and the resolved organization (configured, else
\* HEX_ORGANIZATION) passes validateOrganization; a failing work_dir adds an
\* error of field "work_dir" and a failing organization one of field
\* "organization", and nothing else adds an error: not a missing credential,
\* not an unrecognized key; an empty configuration is valid; the error
\* returned is nil.
C17_Validate ==
    pc = "done" =>
        LET pathOk == validatePath(ResolvedWorkDir) = Nil
            orgOk == validateOrganization(ResolvedOrganization) = Nil
        IN  /\ resp.Valid <=> (pathOk /\ orgOk)
            /\ ErrorFields(resp.Errors) =
                  (IF pathOk THEN <<>> ELSE <<"work_dir">>)
                      \o (IF orgOk THEN <<>> ELSE <<"organization">>)
            /\ ((\A k \in DOMAIN req.Config : req.Config[k] = Absent) /\ orgOk) => resp.Valid
            /\ err = Nil

\* no credential anywhere and an unrecognized key: the work_dir and the
\* organization of HEX_ORGANIZATION are the two errors
C17_Witness ==
    /\ pc = "done"
    /\ req.Config.api_key = Absent
    /\ environ.HEX_API_KEY = ""
    /\ req.Config.unknown_key = Str("value")
    /\ req.Config.work_dir = Str("/etc/passwd")
    /\ req.Config.organization = Absent
    /\ environ.HEX_ORGANIZATION = "env org"
    /\ ~resp.Valid
    /\ ErrorFields(resp.Errors) = <<"work_dir", "organization">>
    /\ err = Nil


\* the names the overrides of a call set
OverrideNames(call) == {EnvKey(call.Env[i]) : i \in 1..Len(call.Env)}

\* the inherited variables: those set in the plugin's process
InheritedNames == {n \in DOMAIN environ : environ[n] # ""}

\* C20: the child of the real executor runs the named command with the given
\* arguments; its environment is the inherited one with every override laid
\* over it (an override wins over an inherited variable of its name; with no
\* overrides the inherited environment is unchanged); its directory is the
\* given one, or the current directory when none is given; and Run returns all
\* that was written to stdout and stderr, in order, with an error exactly when
\* the process failed or could not be started.
C20_RealExecutor ==
    LET call == calls[1] IN
    /\ child # NoValue =>
          /\ child.Path = call.Name
          /\ child.Args = call.Args
          /\ DOMAIN child.Env = InheritedNames \cup OverrideNames(call)
          /\ \A i \in 1..Len(call.Env) :
                child.Env[EnvKey(call.Env[i])] = EnvValue(call.Env[i])
          /\ \A n \in InheritedNames \ OverrideNames(call) : child.Env[n] = environ[n]
          /\ child.Dir = IF call.Dir # "" THEN call.Dir ELSE Getwd
    /\ (pc = "returned" /\ child # NoValue) =>
          /\ run.Output = Join([i \in 1..Len(child.writes) |-> child.writes[i].text], "")
          /\ (run.Err = Nil) <=> (child.code = 0)
    /\ (pc = "returned" /\ child = NoValue) =>
          /\ run.Output = ""
          /\ run.Err = StartError

\* HEX_API_KEY inherited and overridden, no directory given, and the tool
\* fails after writing to both streams
C20_Witness ==
    /\ pc = "returned"
    /\ environ.HEX_API_KEY = "env-key"
    /\ environ.HEX_ORGANIZATION = "env-org"
    /\ calls[1].Env = <<"HEX_API_KEY=a=b", "MIX_ENV=prod">>
    /\ calls[1].Dir = ""
    /\ child # NoValue
    /\ child.Env = [HEX_API_KEY |-> "a=b", HEX_ORGANIZATION |-> "env-org", MIX_ENV |-> "prod"]
    /\ child.Dir = Getwd
    /\ run = [Output |-> "Publishing. ** (Mix) not authenticated", Err |-> "exit status 1"]


CancelledInCall == ctx = "cancelled" /\ pc = "executing"

\* a descendant of the child keeps the output pipe open
PipeHeld == child # NoValue /\ child.held

ChildRuns == child # NoValue /\ child.state = "running"

\* the child has ended, by itself or killed
ChildEnded == child # NoValue /\ child.state # "running"

SoloResponse(i) ==
    LET r == inv[i].req IN
    IF r.Kind = "validate" THEN Validate(r.Config).resp
    ELSE IF inv[i].run # NoValue
    THEN publishReturn(parseConfig(r.Config), r.Version, inv[i].run.Output, inv[i].run.Err).resp
    ELSE execute(r.Hook, r.Config, r.DryRun, r.Version).resp

\* the executor call invocation i makes when it runs alone
SoloCall(i) ==
    LET r == inv[i].req IN
    IF r.Kind = "validate" THEN NoValue
    ELSE execute(r.Hook, r.Config, r.DryRun, r.Version).call

\* C19: under every interleaving of concurrent invocations of Execute and
\* Validate, the executor call of every invocation and the response and error
\* it returns are those it produces when it runs alone with the same request,
\* environment and subprocess outcome.
C19_InvocationsIndependent ==
    \A i \in DOMAIN inv :
        /\ inv[i].pc \in {"executing", "done"} => inv[i].call = SoloCall(i)
        /\ inv[i].pc = "done" =>
              /\ inv[i].resp = SoloResponse(i)
              /\ inv[i].err = Nil

\* two publications side by side, one for an organization and one without,
\* one succeeding and one failing
C19_Witness ==
    /\ inv[1].pc = "done"
    /\ inv[2].pc = "done"
    /\ inv[1].call # NoValue
    /\ inv[2].call # NoValue
    /\ inv[1].call.Args = <<"hex.publish", "--yes">>
    /\ inv[2].call.Args = <<"hex.publish", "--organization", "my-org", "--yes">>
    /\ inv[1].resp.Success
    /\ ~inv[2].resp.Success
    /\ inv[1].resp.Outputs.organization = ""


\* C21: an Execute invocation invokes the executor at most once, and exactly
\* once precisely when the hook is post-publish, the work_dir and the
\* organization pass their validators, the request is not a dry run and the
\* resolved credential is not empty; after a failure of the subprocess there
\* is still that one call only.
C21_AtMostOneCall ==
    pc # "idle" =>
        /\ Len(calls) <= 1
        /\ (Len(calls) = 1) <=>
              (req.Hook = HookPostPublish /\ ConfigValid /\ ~req.DryRun /\ cfg.APIKey # "")
        /\ (pc = "done" /\ run # NoValue /\ run.Err # Nil) => Len(calls) = 1

\* the subprocess of a publication with the credential of the environment
\* failed, and the invocation returned after its one call
C21_Witness ==
    /\ pc = "done"
    /\ req.Hook = HookPostPublish
    /\ ~req.DryRun
    /\ req.Config.api_key = Absent
    /\ cfg.APIKey = "env-key"
    /\ run # NoValue
    /\ run.Err = "exit status 1"
    /\ Len(calls) = 1
    /\ ~resp.Success

\* C22: in a post-publish invocation the first failing check decides the
\* response, in the order work_dir, organization, dry run, credential: with
\* both work_dir and organization invalid the error is the "invalid work_dir"
\* one only; an invalid organization with an empty credential gives "invalid
\* organization", not the missing-credential error; a dry run of an invalid
\* configuration gives the validation failure, not a preview; and a valid dry
\* run without credential gives the preview.
C22_CheckOrder ==
    (PostPublish /\ pc = "done") =>
        LET pathOk == validatePath(cfg.WorkDir) = Nil
            orgOk  == validateOrganization(cfg.Organization) = Nil
        IN  /\ (~pathOk /\ ~orgOk) =>
                  /\ HasPrefix(resp.Error, "invalid work_dir")
                  /\ ~Contains(resp.Error, "invalid organization")
            /\ (pathOk /\ ~orgOk /\ cfg.APIKey = "") =>
                  /\ HasPrefix(resp.Error, "invalid organization")
                  /\ ~Contains(resp.Error, "HEX_API_KEY is required")
            /\ (req.DryRun /\ ~(pathOk /\ orgOk)) =>
                  /\ ~resp.Success
                  /\ resp.Message # "Would publish package to Hex.pm"
                  /\ resp.Outputs = NoOutputs
            /\ (req.DryRun /\ pathOk /\ orgOk /\ cfg.APIKey = "") =>
                  resp.Message = "Would publish package to Hex.pm"
            /\ (~req.DryRun /\ pathOk /\ orgOk /\ cfg.APIKey = "") => calls = <<>>

\* a dry run without credential whose work_dir and organization are both
\* invalid is refused for its work_dir
C22_Witness ==
    /\ PostPublish
    /\ pc = "done"
    /\ req.DryRun
    /\ cfg.APIKey = ""
    /\ cfg.WorkDir = "/etc/passwd"
    /\ cfg.Organization = "my org; rm -rf /"
    /\ resp.Error = "invalid work_dir: absolute paths are not allowed"


\* Execute refused the configuration for its work_dir or its organization
RefusedAsUnsafe ==
    \/ HasPrefix(resp.Error, "invalid work_dir")
    \/ HasPrefix(resp.Error, "invalid organization")

\* C23: for every raw configuration and environment, Validate answers
\* valid=true exactly when a post-publish Execute of the same configuration
\* in the same environment returns neither an "invalid work_dir" nor an
\* "invalid organization" error; when both fields are invalid Validate
\* reports both errors and Execute the work_dir one only.
C23_ValidateAgreesWithExecute ==
    (pc = "done" /\ Len(inv) = 1) =>
        LET validation == inv[1].resp IN
        /\ validation.Valid <=> ~RefusedAsUnsafe
        /\ inv[1].err = Nil
        /\ (validatePath(cfg.WorkDir) # Nil /\ validateOrganization(cfg.Organization) # Nil) =>
              /\ ErrorFields(validation.Errors) = <<"work_dir", "organization">>
              /\ HasPrefix(resp.Error, "invalid work_dir")
              /\ ~Contains(resp.Error, "invalid organization")

\* a traversing work_dir and the organization of HEX_ORGANIZATION both fail:
\* two errors from Validate, the work_dir error from Execute
C23_Witness ==
    /\ pc = "done"
    /\ Len(inv) = 1
    /\ req.Config.work_dir = Str("../../../etc")
    /\ req.Config.organization = Absent
    /\ environ.HEX_ORGANIZATION = "env org"
    /\ ~inv[1].resp.Valid
    /\ Len(inv[1].resp.Errors) = 2
    /\ resp.Error = "invalid work_dir: " \o validatePath("../../../etc")


\* strings.Split(s, sep) for a separator of one character
RECURSIVE Split(_, _)
Split(s, sep) ==
    IF ~Contains(s, sep) THEN <<s>>
    ELSE LET k == CHOOSE i \in 0..(Len(s) - 1) :
                      At(s, i) = sep /\ \A j \in 0..(i - 1) : At(s, j) # sep
         IN  <<Take(s, k)>> \o Split(Drop(s, k + 1), sep)

\* both calls of the host have returned
BothReturned == pc = "done" /\ Len(inv) = 1

\* the first and the second invocation, as records of the same shape
FirstInvocation == inv[1]
SecondInvocation ==
    [req |-> req, cfg |-> cfg, calls |-> calls, run |-> run, resp |-> resp, err |-> err]

\* the command text of a dry run is that of the real run `real`
Faithful(dry, real) ==
    /\ Len(real.calls) = 1
    /\ real.calls[1].Name = "mix"
    /\ dry.calls = <<>>
    /\ dry.resp.Outputs.command = "mix " \o Join(real.calls[1].Args, " ")
    /\ Split(dry.resp.Outputs.command, " ") = <<"mix">> \o real.calls[1].Args
    /\ \A i \in 1..Len(real.calls[1].Args) :
          real.calls[1].Args[i] # "" /\ ~Contains(real.calls[1].Args[i], " ")

\* C24: for every valid configuration with a non-empty credential and every
\* release version, the "command" output of a dry-run Execute is "mix "
\* followed by the space-joined arguments that the non-dry-run Execute of the
\* same configuration passes to the executor, and splitting it on single
\* spaces gives back "mix" and those arguments: no argument is empty or
\* holds a space.
C24_DryRunFaithful ==
    (/\ BothReturned
     /\ FirstInvocation.req.Config = req.Config
     /\ FirstInvocation.req.DryRun # req.DryRun
     /\ ConfigValid
     /\ cfg.APIKey # "") =>
        IF req.DryRun
        THEN Faithful(SecondInvocation, FirstInvocation)
        ELSE Faithful(FirstInvocation, SecondInvocation)

\* a dry run after the real run of the same configuration, with organization
\* and both flags: five arguments
C24_Witness ==
    /\ BothReturned
    /\ FirstInvocation.req.Config = req.Config
    /\ ~FirstInvocation.req.DryRun
    /\ req.DryRun
    /\ cfg.APIKey = "config-key"
    /\ cfg.Organization = "my-org"
    /\ cfg.Replace
    /\ cfg.Yes
    /\ ConfigValid
    /\ Len(FirstInvocation.calls) = 1
    /\ resp.Message = "Would publish package to Hex.pm"
    /\ resp.Outputs.command = "mix hex.publish --organization my-org --replace --yes"
    /\ FirstInvocation.calls[1].Args =
          <<"hex.publish", "--organization", "my-org", "--replace", "--yes">>


\* an executor call without the environment it was given
WithoutEnv(call) == [Name |-> call.Name, Args |-> call.Args, Dir |-> call.Dir]

\* the recorded calls of an invocation without their environments
CallsWithoutEnv(i) == [k \in 1..Len(i.calls) |-> WithoutEnv(i.calls[k])]

\* the fields of a response that the plugin builds by itself: success, message
\* and the version, organization, command and replace outputs
PluginBuilt(r) ==
    [ Success |-> r.Success,
      Message |-> r.Message,
      Outputs |-> [k \in (DOMAIN r.Outputs) \cap {"version", "organization", "command", "replace"}
                      |-> r.Outputs[k]] ]

\* the two requests differ in the credential at most
SameButCredential == BothReturned /\ FirstInvocation.req.DryRun = req.DryRun

\* the credential occurs in an argument of the invocation's call or in the
\* command text of its dry run
CredentialShown(i) ==
    /\ i.cfg.APIKey # ""
    /\ \/ \E k \in 1..Len(i.calls) : \E a \in 1..Len(i.calls[k].Args) :
              Contains(i.calls[k].Args[a], i.cfg.APIKey)
       \/ /\ "command" \in DOMAIN i.resp.Outputs
          /\ Contains(i.resp.Outputs.command, i.cfg.APIKey)

\* C25 as stated: two requests that differ only in the non-empty credential
\* have the same arguments, working directory and plugin-built response
\* fields, a dry-run response is the same for every credential, and the
\* credential never occurs in the arguments or the command text.
C25_AsClaimed ==
    SameButCredential =>
        /\ (/\ FirstInvocation.cfg.APIKey # ""
            /\ cfg.APIKey # ""
            /\ FirstInvocation.cfg.APIKey # cfg.APIKey) =>
              /\ CallsWithoutEnv(FirstInvocation) = CallsWithoutEnv(SecondInvocation)
              /\ PluginBuilt(FirstInvocation.resp) = PluginBuilt(resp)
        /\ req.DryRun => FirstInvocation.resp = resp
        /\ ~CredentialShown(FirstInvocation)
        /\ ~CredentialShown(SecondInvocation)

\* C25: for two requests that differ only in the non-empty credential the
\* executor gets the same name, arguments and working directory and the
\* credential in its environment only; when the executor returns the same
\* output and error to both, the two responses are equal in every field; a
\* dry-run response is the same for every credential, the empty one included;
\* the credential is in no argument and not in the command text.
C25_CredentialOnlyInEnv ==
    SameButCredential =>
        /\ (FirstInvocation.cfg.APIKey # "" /\ cfg.APIKey # "") =>
              /\ CallsWithoutEnv(FirstInvocation) = CallsWithoutEnv(SecondInvocation)
              /\ \A k \in 1..Len(calls) : calls[k].Env = <<"HEX_API_KEY=" \o cfg.APIKey>>
              /\ (FirstInvocation.run = run) =>
                    (FirstInvocation.resp = resp /\ FirstInvocation.err = err)
        /\ req.DryRun => (FirstInvocation.resp = resp /\ FirstInvocation.err = err)
        /\ ~CredentialShown(FirstInvocation)
        /\ ~CredentialShown(SecondInvocation)

\* two real runs of a valid configuration with different keys, the executor
\* returning the same to both
C25_Witness ==
    /\ SameButCredential
    /\ ~req.DryRun
    /\ FirstInvocation.cfg.APIKey = "config-key"
    /\ cfg.APIKey = "other-key"
    /\ cfg.Organization = "my-org"
    /\ Len(calls) = 1
    /\ Len(FirstInvocation.calls) = 1
    /\ calls[1].Env # FirstInvocation.calls[1].Env
    /\ run = FirstInvocation.run
    /\ run.Err = Nil
    /\ resp = FirstInvocation.resp
    /\ resp.Success


\* C26: every response returned by Execute has success=true exactly when its
\* error string is empty; a failing response has no outputs and no message;
\* a successful post-publish response has outputs with "version" and
\* "organization".
C26_ResponseShape ==
    pc = "done" =>
        /\ err = Nil
        /\ resp.Success <=> resp.Error = ""
        /\ ~resp.Success => (resp.Outputs = NoOutputs /\ resp.Message = "")
        /\ (resp.Success /\ req.Hook = HookPostPublish) =>
              {"version", "organization"} \subseteq DOMAIN resp.Outputs

\* a real run refused for its missing API key: an error, nothing else
C26_Witness ==
    /\ pc = "done"
    /\ req.Hook = HookPostPublish
    /\ ~req.DryRun
    /\ ConfigValid
    /\ cfg.APIKey = ""
    /\ ~resp.Success
    /\ HasPrefix(resp.Error, "HEX_API_KEY is required")
    /\ resp.Message = ""
    /\ resp.Outputs = NoOutputs


=============================================================================
